---- MODULE Spec2Model ----
(***************************************************************************)
(* Model of prefixed-api-key (src/unnamed/part_000): generateAPIKey, the   *)
(* token parsers and checkAPIKey.                                          *)
(*                                                                         *)
(* JavaScript values are records [t, s, h]: t is the typeof tag           *)
(* ("undefined", "string", "number", and "nan" for the number NaN), s the  *)
(* characters of a string (a sequence of one-character strings) and h a    *)
(* number counted in halves (h = 2 * value), so that the non-integer       *)
(* lengths 4.5 and 24.5 are values of the model.                           *)
(***************************************************************************)
EXTENDS Integers, Sequences, FiniteSets, TLC

VARIABLES pc, options, draw, entropy, first, all, result, error, tok, segs, out

vars == <<pc, options, draw, entropy, first, all, result, error, tok, segs, out>>

(***************************************************************************)
(* JavaScript values                                                       *)
(***************************************************************************)
Undef == [t |-> "undefined", s |-> <<>>, h |-> 0]

NaN == [t |-> "nan", s |-> <<>>, h |-> 0]

Str(chars) == [t |-> "string", s |-> chars, h |-> 0]

Num(halves) == [t |-> "number", s |-> <<>>, h |-> halves]

\* typeof v === "number" (NaN is a number)
IsNumber(v) == v.t \in {"number", "nan"}

\* ToBoolean(v): undefined, "", 0 and NaN are falsy
Truthy(v) ==
  CASE v.t = "undefined" -> FALSE
    [] v.t = "nan" -> FALSE
    [] v.t = "string" -> v.s # <<>>
    [] v.t = "number" -> v.h # 0

\* v < n and v > n for a number v and an integer n; every comparison with
\* NaN is false. The code compares only after typeof v === "number".
LessThan(v, n) == v.t = "number" /\ v.h < 2 * n

GreaterThan(v, n) == v.t = "number" /\ v.h > 2 * n

\* v ?? d
Coalesce(v, d) == IF v.t = "undefined" THEN d ELSE v

\* lodash toInteger / ToIntegerOrInfinity: NaN and undefined give 0, a
\* number is truncated toward zero
toInteger(v) ==
  IF v.t = "number"
    THEN IF v.h >= 0 THEN v.h \div 2 ELSE -((-v.h) \div 2)
    ELSE 0

Min(a, b) == IF a < b THEN a ELSE b

Max(a, b) == IF a > b THEN a ELSE b

(***************************************************************************)
(* Strings and arrays                                                      *)
(***************************************************************************)
RECURSIVE Repeat(_, _)
Repeat(c, n) == IF n <= 0 THEN <<>> ELSE <<c>> \o Repeat(c, n - 1)

\* String.prototype.slice(0, end): end undefined is the length, a negative
\* end counts from the end, and the result is clamped to the string
slice(s, end) ==
  LET e == toInteger(end)
      to == IF end.t = "undefined" THEN Len(s)
            ELSE IF e < 0 THEN Max(Len(s) + e, 0)
            ELSE Min(e, Len(s))
  IN SubSeq(s, 1, to)

\* lodash padStart(string, length, chars) with a one-character chars
padStart(s, length, c) ==
  LET n == toInteger(length)
  IN IF n # 0 /\ Len(s) < n THEN Repeat(c, n - Len(s)) \o s ELSE s

\* String.prototype.split("_"): the segments between underscores, one more
\* than the number of underscores (so never empty)
RECURSIVE SplitFrom(_, _, _)
SplitFrom(s, i, cur) ==
  IF i > Len(s) THEN <<cur>>
  ELSE IF s[i] = "_" THEN <<cur>> \o SplitFrom(s, i + 1, <<>>)
  ELSE SplitFrom(s, i + 1, Append(cur, s[i]))

split(s) == SplitFrom(s, 1, <<>>)

\* Array.prototype.slice(start, end) for negative start and end: both count
\* from the end of the array and are clamped at its beginning
ArraySlice(a, start, end) ==
  LET from == Max(Len(a) + start, 0)
      to == Max(Len(a) + end, 0)
  IN SubSeq(a, from + 1, to)

\* Array.prototype.slice(start) for a negative start: up to the end
ArraySliceFrom(a, start) == SubSeq(a, Max(Len(a) + start, 0) + 1, Len(a))

\* a?.[0]: the first element or undefined
First(a) == IF a = <<>> THEN Undef ELSE Str(a[1])

(***************************************************************************)
(* bs58.encode: base-x over the Bitcoin alphabet. One "1" per leading zero *)
(* byte, then the base-58 digits of the remaining bytes, most significant  *)
(* first. Digits are kept least significant first while multiplying.       *)
(***************************************************************************)
ALPHABET ==
  << "1","2","3","4","5","6","7","8","9",
     "A","B","C","D","E","F","G","H","J","K","L","M","N","P","Q","R","S","T",
     "U","V","W","X","Y","Z",
     "a","b","c","d","e","f","g","h","i","j","k","m","n","o","p","q","r","s",
     "t","u","v","w","x","y","z" >>

BASE == 58

\* b58 = b58 * 256 + carry, digit by digit
RECURSIVE MulAdd(_, _, _)
MulAdd(b58, i, carry) ==
  IF i > Len(b58)
    THEN IF carry = 0 THEN <<>>
         ELSE <<carry % BASE>> \o MulAdd(b58, i, carry \div BASE)
    ELSE LET x == carry + 256 * b58[i]
         IN <<x % BASE>> \o MulAdd(b58, i + 1, x \div BASE)

RECURSIVE Digits(_, _, _)
Digits(source, pbegin, b58) ==
  IF pbegin > Len(source) THEN b58
  ELSE Digits(source, pbegin + 1, MulAdd(b58, 1, source[pbegin]))

RECURSIVE Zeroes(_, _)
Zeroes(source, pbegin) ==
  IF pbegin > Len(source) \/ source[pbegin] # 0 THEN 0
  ELSE 1 + Zeroes(source, pbegin + 1)

bs58encode(source) ==
  LET zeroes == Zeroes(source, 1)
      b58 == Digits(source, zeroes + 1, <<>>)
      n == Len(b58)
  IN Repeat(ALPHABET[1], zeroes) \o [k \in 1..n |-> ALPHABET[b58[n + 1 - k] + 1]]

(***************************************************************************)
(* The digest and the parsers                                              *)
(***************************************************************************)
\* createHash("sha256").update(longToken).digest("hex"), as the symbolic
\* digest of an ideal hash: a function of longToken alone, distinct inputs
\* give distinct digests, and no digest is its own input
hashLongToken(longToken) == Str(<<"sha256">> \o longToken.s)

\* a faulty variant of extractLongToken: left-anchored, the segment after the
\* first underscore pair (right only when the prefix has no underscore)
extractLongTokenLeft(token) ==
  LET a == split(token.s)
  IN IF Len(a) >= 3 THEN Str(a[3]) ELSE Str(a[Len(a)])

\* token.split("_").slice(-1)?.[0]
extractLongToken(token) == First(ArraySliceFrom(split(token.s), -1))

\* a faulty variant of extractShortToken: left-anchored, the second segment
extractShortTokenLeft(token) ==
  LET a == split(token.s)
  IN IF Len(a) >= 2 THEN Str(a[2]) ELSE Undef

\* token.split("_").slice(-2, -1)?.[0]
extractShortToken(token) == First(ArraySlice(split(token.s), -2, -1))

extractLongTokenHash(token) == hashLongToken(extractLongToken(token))

checkAPIKey(token, expectedLongTokenHash) ==
  hashLongToken(extractLongToken(token)) = expectedLongTokenHash

getTokenComponents(token) ==
  LET longToken == extractLongToken(token)
  IN [longToken |-> longToken,
      shortToken |-> extractShortToken(token),
      longTokenHash |-> hashLongToken(longToken),
      token |-> token]

(***************************************************************************)
(* generateAPIKey: validation                                              *)
(***************************************************************************)
Lower ==
  {"a","b","c","d","e","f","g","h","i","j","k","l","m","n","o","p","q","r",
   "s","t","u","v","w","x","y","z"}

Digit == {"0","1","2","3","4","5","6","7","8","9"}

\* /^[a-z0-9_]+$/.test(v) and /^[a-z0-9]+$/.test(v), for a string v
MatchesKeyPrefix(v) ==
  v.s # <<>> /\ \A i \in 1..Len(v.s) : v.s[i] \in Lower \cup Digit \cup {"_"}

MatchesShortTokenPrefix(v) ==
  v.s # <<>> /\ \A i \in 1..Len(v.s) : v.s[i] \in Lower \cup Digit

NoError == "none"

OptionsRequired == "options object is required"

KeyPrefixInvalid ==
  "keyPrefix is required and must only contain lowercase letters and numbers (a-z), or underscore (_)"

ShortTokenPrefixInvalid ==
  "shortTokenPrefix must only contain lowercase letters and numbers"

ShortTokenLengthInvalid == "shortTokenLength must be a number between 4 and 24"

LongTokenLengthInvalid == "longTokenLength must be a number between 4 and 24"

\* what randomBytes throws for a size that is no number, is NaN or is negative
SizeInvalid == "randomBytes: invalid size"

\* the error randomBytes passes to its callback when the secure RNG fails
EntropyFailure == "randomBytes: entropy source failed"

ValidationErrors ==
  {OptionsRequired, KeyPrefixInvalid, ShortTokenPrefixInvalid,
   ShortTokenLengthInvalid, LongTokenLengthInvalid}

MinTokenLength == 4

MaxTokenLength == 24

\* the condition of each length check: the value is truthy, and is not a
\* number or is below 4 or above 24
LengthRejected(v) ==
  Truthy(v) /\ (~IsNumber(v) \/ LessThan(v, MinTokenLength)
                  \/ GreaterThan(v, MaxTokenLength))

\* the checks in the order of the code; the first that fails throws
ValidationError(o) ==
  CASE ~o.present -> OptionsRequired
    [] o.present /\ (~Truthy(o.keyPrefix) \/ o.keyPrefix.t # "string"
                       \/ ~MatchesKeyPrefix(o.keyPrefix)) -> KeyPrefixInvalid
    [] OTHER ->
       IF Truthy(o.shortTokenPrefix)
            /\ (o.shortTokenPrefix.t # "string"
                  \/ ~MatchesShortTokenPrefix(o.shortTokenPrefix))
         THEN ShortTokenPrefixInvalid
       ELSE IF LengthRejected(o.shortTokenLength) THEN ShortTokenLengthInvalid
       ELSE IF LengthRejected(o.longTokenLength) THEN LongTokenLengthInvalid
       ELSE NoError

(***************************************************************************)
(* generateAPIKey: the two entropy draws and Promise.all                   *)
(***************************************************************************)
Draws == {"short", "long"}

\* the position of each draw in the array given to Promise.all
Index(d) == IF d = "short" THEN 1 ELSE 2

DefaultShortBytes == 8

DefaultLongBytes == 24

\* the size given to randomBytes: shortTokenLength ?? 8, longTokenLength ?? 24
Size(o, d) ==
  IF d = "short" THEN Coalesce(o.shortTokenLength, Num(2 * DefaultShortBytes))
  ELSE Coalesce(o.longTokenLength, Num(2 * DefaultLongBytes))

\* randomBytes accepts a number that is not NaN and not negative, and
\* allocates size >>> 0 bytes; anything else throws at the call
SizeAccepted(v) == v.t = "number" /\ v.h >= 0

\* a faulty variant of Requested: the draws are started before the options are
\* validated
RequestedEagerly(o) == Draws

\* the draws a call starts: none when a validation check throws, because
\* every check precedes the call of Promise.all
Requested(o) == IF ValidationError(o) = NoError THEN Draws ELSE {}

AllPending == [values |-> << <<>>, <<>> >>, remaining |-> 2, state |-> "pending"]

\* a faulty variant of ResolveElement: values are kept in order of completion
ResolveElementInOrder(p, index, value) ==
  [values |-> [p.values EXCEPT ![3 - p.remaining] = value],
   remaining |-> p.remaining - 1,
   state |-> IF p.state = "pending" /\ p.remaining = 1 THEN "fulfilled"
             ELSE p.state]

\* Promise.all's resolve element function: the value is stored at the
\* promise's index, and the last one fulfils the aggregate
ResolveElement(p, index, value) ==
  [values |-> [p.values EXCEPT ![index] = value],
   remaining |-> p.remaining - 1,
   state |-> IF p.state = "pending" /\ p.remaining = 1 THEN "fulfilled"
             ELSE p.state]

\* Promise.all rejects with the first rejection; later ones change nothing
Reject(p) == IF p.state = "pending" THEN [p EXCEPT !.state = "rejected"] ELSE p

(***************************************************************************)
(* generateAPIKey: assembly                                                *)
(***************************************************************************)
PadChar == "0"

\* padStart(bs58.encode(bytes), length, "0").slice(0, length)
Encoded(bytes, length) == slice(padStart(bs58encode(bytes), length, PadChar), length)

\* a faulty variant of Prefixed: the prefix extends the short token
PrefixedUncut(shortTokenPrefix, shortToken, shortTokenLength) ==
  (IF Truthy(shortTokenPrefix) THEN shortTokenPrefix.s ELSE <<>>) \o shortToken

\* a faulty variant of Prefixed: the prefix is put after the short token
PrefixedAfter(shortTokenPrefix, shortToken, shortTokenLength) ==
  slice(shortToken \o (IF Truthy(shortTokenPrefix) THEN shortTokenPrefix.s ELSE <<>>),
        shortTokenLength)

\* `${shortTokenPrefix ? shortTokenPrefix : ""}${shortToken}`.slice(0, shortTokenLength)
Prefixed(shortTokenPrefix, shortToken, shortTokenLength) ==
  slice((IF Truthy(shortTokenPrefix) THEN shortTokenPrefix.s ELSE <<>>) \o shortToken,
        shortTokenLength)

NoKey == [longToken |-> Undef, longTokenHash |-> Undef, shortToken |-> Undef,
          token |-> Undef]

\* a faulty variant of APIKeyOf: the hash is taken of the encoded long token
\* before it is cut to longTokenLength
APIKeyOfHashBeforeSlice(o, shortTokenBytes, longTokenBytes) ==
  LET shortToken == Prefixed(o.shortTokenPrefix,
                             Encoded(shortTokenBytes, o.shortTokenLength),
                             o.shortTokenLength)
      longToken == Encoded(longTokenBytes, o.longTokenLength)
  IN [longToken |-> Str(longToken),
      longTokenHash |-> hashLongToken(Str(bs58encode(longTokenBytes))),
      shortToken |-> Str(shortToken),
      token |-> Str(o.keyPrefix.s \o <<"_">> \o shortToken \o <<"_">> \o longToken)]

\* a faulty variant of APIKeyOf: the token is assembled from the short token as
\* it was before the prefix was put in front
APIKeyOfTokenBeforePrefix(o, shortTokenBytes, longTokenBytes) ==
  LET encoded == Encoded(shortTokenBytes, o.shortTokenLength)
      shortToken == Prefixed(o.shortTokenPrefix, encoded, o.shortTokenLength)
      longToken == Encoded(longTokenBytes, o.longTokenLength)
  IN [longToken |-> Str(longToken),
      longTokenHash |-> hashLongToken(Str(longToken)),
      shortToken |-> Str(shortToken),
      token |-> Str(o.keyPrefix.s \o <<"_">> \o encoded \o <<"_">> \o longToken)]

\* lines 100 to 128: both tokens encoded and cut, the hash of the long
\* token, the prefix put before the short token, and the token joined
APIKeyOf(o, shortTokenBytes, longTokenBytes) ==
  LET shortToken == Prefixed(o.shortTokenPrefix,
                             Encoded(shortTokenBytes, o.shortTokenLength),
                             o.shortTokenLength)
      longToken == Encoded(longTokenBytes, o.longTokenLength)
  IN [longToken |-> Str(longToken),
      longTokenHash |-> hashLongToken(Str(longToken)),
      shortToken |-> Str(shortToken),
      token |-> Str(o.keyPrefix.s \o <<"_">> \o shortToken \o <<"_">> \o longToken)]

(***************************************************************************)
(* Inputs                                                                  *)
(***************************************************************************)
\* the longest shortTokenPrefix that is drawn, in characters
MaxPrefixLen == 5

\* the most leading zero bytes of a drawn byte string that is not all zero
MaxZeros == 1

\* the most segments of a token presented to the parsers
MaxSegments == 4

Take(s, n) == SubSeq(s, 1, Min(n, Len(s)))

MyPrefix123 == <<"m","y","p","r","e","f","i","x","1","2","3">>

KeyPrefixes ==
  {Undef, Str(<<>>), Num(2), Str(<<"f","o","o","*","b","a","r">>),
   Str(<<"m","y">>), Str(<<"m","y","_","c","o","_","1">>)}

ShortTokenPrefixes ==
  {Undef, Str(<<>>), Str(<<"f","*">>), Str(Take(MyPrefix123, 2)),
   Str(Take(MyPrefix123, MaxPrefixLen))}

\* absent, NaN, "1", -1, 0, 3, 4, 4.5, 24, 24.5 and 25
Lengths ==
  {Undef, NaN, Str(<<"1">>), Num(-2), Num(0), Num(6), Num(8), Num(9), Num(48),
   Num(49), Num(50)}

NoOptions ==
  [present |-> FALSE, keyPrefix |-> Undef, shortTokenPrefix |-> Undef,
   shortTokenLength |-> Undef, longTokenLength |-> Undef]

OptionsSet ==
  {NoOptions} \cup
  [present : {TRUE}, keyPrefix : KeyPrefixes, shortTokenPrefix : ShortTokenPrefixes,
   shortTokenLength : Lengths, longTokenLength : Lengths]

FillBytes == {255}

\* what randomBytes(n) may return, within the bounds: n zero bytes, or up to
\* MaxZeros zero bytes followed by one repeated non-zero byte
Entropy(n) ==
  {[i \in 1..n |-> 0]} \cup
  {[i \in 1..n |-> IF i <= z THEN 0 ELSE f] : z \in 0..Min(MaxZeros, n), f \in FillBytes}

Segments ==
  {<<>>, <<"m","y">>, <<"c","o">>, <<"B","R","T">>, <<"5","1","F","w">>}

RECURSIVE SegSeqs(_)
SegSeqs(n) ==
  IF n = 0 THEN {<<>>}
  ELSE {Append(q, g) : q \in SegSeqs(n - 1), g \in Segments}

RECURSIVE Join(_)
Join(q) ==
  IF Len(q) = 1 THEN q[1]
  ELSE Join(SubSeq(q, 1, Len(q) - 1)) \o <<"_">> \o q[Len(q)]

\* "my_company_BRTRKFsL_51FwqftsmMDHHbJAMEXXHCgG"
KnownSegments ==
  << <<"m","y">>, <<"c","o","m","p","a","n","y">>,
     <<"B","R","T","R","K","F","s","L">>,
     <<"5","1","F","w","q","f","t","s","m","M","D","H","H","b","J","A","M","E",
       "X","X","H","C","g","G">> >>

Foo == Str(<<"f","o","o">>)

\* the hashes a caller may hold against a presented token: "foo", and each
\* segment of the token and the token itself, hashed and unhashed
Expected(token) ==
  {Foo, token, hashLongToken(token)}
  \cup {Str(g) : g \in {split(token.s)[i] : i \in 1..Len(split(token.s))}}
  \cup {hashLongToken(Str(g)) : g \in {split(token.s)[i] : i \in 1..Len(split(token.s))}}

(***************************************************************************)
(* State: pc is where the one call of generateAPIKey stands, draw the      *)
(* state of each randomBytes, all the promise of Promise.all, result and   *)
(* error what the call returned or threw, tok the presented token and out  *)
(* the operation applied to it. entropy (the bytes each draw gave), first  *)
(* (the draw that completed first) and segs (the segments a presented      *)
(* token was joined from) record history and are read by no action.        *)
(***************************************************************************)
NoOut == [op |-> "none", token |-> Undef, expected |-> Undef, val |-> Undef]

Init ==
  /\ pc = "idle"
  /\ options = NoOptions
  /\ draw = [d \in Draws |-> "none"]
  /\ entropy = [d \in Draws |-> <<>>]
  /\ first = "none"
  /\ all = AllPending
  /\ result = NoKey
  /\ error = NoError
  /\ tok = Undef
  /\ segs = <<>>
  /\ out = NoOut

(***************************************************************************)
(* generateAPIKey(o) up to its await: the checks, then the two calls of    *)
(* randomBytes and Promise.all. A call of randomBytes that throws gives a  *)
(* rejected promise, and the rejection reaches the caller in the same turn.*)
(***************************************************************************)
Call(o) ==
  /\ pc = "idle"
  /\ options' = o
  /\ LET err == ValidationError(o)
         started == [d \in Draws |->
                       IF d \notin Requested(o) THEN "none"
                       ELSE IF SizeAccepted(Size(o, d)) THEN "pending"
                       ELSE "failed"]
         rejected == \E d \in Draws : started[d] = "failed"
     IN /\ draw' = started
        /\ all' = IF rejected THEN Reject(AllPending) ELSE AllPending
        /\ pc' = IF err # NoError \/ rejected THEN "threw" ELSE "awaiting"
        /\ error' = IF err # NoError THEN err
                    ELSE IF rejected THEN SizeInvalid ELSE NoError
  /\ UNCHANGED <<entropy, first, result, tok, segs, out>>

\* the callback of one randomBytes with its bytes, the resolve element
\* function of Promise.all, and, when that fulfils it, the rest of
\* generateAPIKey
DrawCompletes(d, bytes) ==
  /\ draw[d] = "pending"
  /\ draw' = [draw EXCEPT ![d] = "done"]
  /\ entropy' = [entropy EXCEPT ![d] = bytes]
  /\ first' = IF first = "none" THEN d ELSE first
  /\ all' = ResolveElement(all, Index(d), bytes)
  /\ IF pc = "awaiting" /\ all'.state = "fulfilled"
       THEN /\ pc' = "returned"
            /\ result' = APIKeyOf(options, all'.values[1], all'.values[2])
       ELSE UNCHANGED <<pc, result>>
  /\ UNCHANGED <<options, error, tok, segs, out>>

\* the callback of one randomBytes with an error: Promise.all rejects and
\* generateAPIKey throws it, unless it has thrown already
DrawFails(d) ==
  /\ draw[d] = "pending"
  /\ draw' = [draw EXCEPT ![d] = "failed"]
  /\ all' = Reject(all)
  /\ IF pc = "awaiting"
       THEN pc' = "threw" /\ error' = EntropyFailure
       ELSE UNCHANGED <<pc, error>>
  /\ UNCHANGED <<options, entropy, first, result, tok, segs, out>>

(***************************************************************************)
(* The parsers and checkAPIKey, applied to the presented token             *)
(***************************************************************************)
\* the caller hands the token of the returned key to the client, who
\* presents it
PresentKey ==
  /\ pc = "returned"
  /\ tok = Undef
  /\ tok' = result.token
  /\ UNCHANGED <<pc, options, draw, entropy, first, all, result, error, segs, out>>

\* one operation on the presented token; the operations are pure, so one
\* application in a behaviour reaches every value any sequence of them gives
Apply(op, expected, val) ==
  /\ tok # Undef
  /\ out = NoOut
  /\ out' = [op |-> op, token |-> tok, expected |-> expected, val |-> val]
  /\ UNCHANGED <<pc, options, draw, entropy, first, all, result, error, tok, segs>>

ExtractLongToken == Apply("extractLongToken", Undef, extractLongToken(tok))

ExtractShortToken == Apply("extractShortToken", Undef, extractShortToken(tok))

ExtractLongTokenHash == Apply("extractLongTokenHash", Undef, extractLongTokenHash(tok))

GetTokenComponents == Apply("getTokenComponents", Undef, getTokenComponents(tok))

CheckAPIKey(h) == Apply("checkAPIKey", h, checkAPIKey(tok, h))

Next ==
  \/ \E o \in OptionsSet : Call(o)
  \/ \E d \in Draws : \E bytes \in Entropy(toInteger(Size(options, d))) :
       DrawCompletes(d, bytes)
  \/ \E d \in Draws : DrawFails(d)
  \/ PresentKey
  \/ ExtractLongToken
  \/ ExtractShortToken
  \/ ExtractLongTokenHash
  \/ GetTokenComponents
  \/ \E h \in Expected(tok) : CheckAPIKey(h)

Spec == Init /\ [][Next]_vars

\* the parsers on their own: any token of up to MaxSegments segments, and
\* the known token of the tests
ParseInit ==
  /\ pc = "idle"
  /\ options = NoOptions
  /\ draw = [d \in Draws |-> "none"]
  /\ entropy = [d \in Draws |-> <<>>]
  /\ first = "none"
  /\ all = AllPending
  /\ result = NoKey
  /\ error = NoError
  /\ segs \in UNION {SegSeqs(n) : n \in 1..MaxSegments} \cup {KnownSegments}
  /\ tok = Str(Join(segs))
  /\ out = NoOut

ParseNext ==
  \/ ExtractLongToken
  \/ ExtractShortToken
  \/ ExtractLongTokenHash
  \/ GetTokenComponents
  \/ \E h \in Expected(tok) : CheckAPIKey(h)

ParseSpec == ParseInit /\ [][ParseNext]_vars

(***************************************************************************)
(* Properties                                                              *)
(***************************************************************************)
Returned == pc = "returned"

\* v is an integer in [4,24]
IsLengthInRange(v) ==
  v.t = "number" /\ v.h % 2 = 0 /\ v.h >= 2 * MinTokenLength /\ v.h <= 2 * MaxTokenLength

HasUnderscore(s) == \E i \in 1..Len(s) : s[i] = "_"

StartsWith(s, p) == Len(s) >= Len(p) /\ SubSeq(s, 1, Len(p)) = p

\* C1: checkAPIKey on the token of a returned key is true for the key's
\* longTokenHash and false for every other expected hash.
C1_CheckAcceptsExactlyTheKeyHash ==
  (Returned /\ out.op = "checkAPIKey" /\ out.token = result.token)
    => (out.val <=> out.expected = result.longTokenHash)

C1_Witness ==
  /\ Returned
  /\ out.op = "checkAPIKey"
  /\ out.token = result.token
  /\ out.expected = result.longTokenHash
  /\ out.val = TRUE
  /\ HasUnderscore(options.keyPrefix.s)

\* C2: getTokenComponents on the token of a returned key gives back the
\* key: the same shortToken, longToken, longTokenHash and token.
C2_RoundTrip ==
  (Returned /\ out.op = "getTokenComponents" /\ out.token = result.token)
    => out.val = result

C2_Witness ==
  /\ Returned
  /\ out.op = "getTokenComponents"
  /\ out.val = result
  /\ HasUnderscore(options.keyPrefix.s)
  /\ Truthy(options.shortTokenPrefix)

\* C3: a shortTokenLength (longTokenLength) given as an integer in [4,24]
\* is the length of the returned shortToken (longToken), whatever the bytes
\* drawn and whether or not a shortTokenPrefix is given.
C3_ExplicitLengths ==
  Returned =>
    /\ IsLengthInRange(options.shortTokenLength)
         => Len(result.shortToken.s) = toInteger(options.shortTokenLength)
    /\ IsLengthInRange(options.longTokenLength)
         => Len(result.longToken.s) = toInteger(options.longTokenLength)

C3_Witness ==
  /\ Returned
  /\ options.shortTokenLength = Num(2 * MaxTokenLength)
  /\ options.longTokenLength = Num(2 * MinTokenLength)
  /\ Truthy(options.shortTokenPrefix)
  /\ Len(result.shortToken.s) = MaxTokenLength
  /\ Len(result.longToken.s) = MinTokenLength

\* C4: with shortTokenLength (longTokenLength) omitted, the returned
\* shortToken has length 8 (the longToken length 24).
C4_DefaultLengths ==
  Returned =>
    /\ options.shortTokenLength = Undef
         => Len(result.shortToken.s) = DefaultShortBytes
    /\ options.longTokenLength = Undef
         => Len(result.longToken.s) = DefaultLongBytes

\* the options reach the length checks: the checks before them pass
ReachesLengthChecks(o) ==
  ValidationError(o) \notin {OptionsRequired, KeyPrefixInvalid, ShortTokenPrefixInvalid}

\* C5: a present shortTokenLength (longTokenLength) is accepted if and only
\* if it is an integer in [4,24]; any other present value fails the call
\* with the validation error that names the field.
C5_LengthsValidated ==
  (pc # "idle" /\ ReachesLengthChecks(options)) =>
    /\ options.shortTokenLength # Undef =>
         (IsLengthInRange(options.shortTokenLength)
            <=> error # ShortTokenLengthInvalid)
    /\ (options.shortTokenLength # Undef
          /\ ~IsLengthInRange(options.shortTokenLength))
         => pc = "threw"
    /\ (IsLengthInRange(options.shortTokenLength)
          /\ options.longTokenLength # Undef) =>
         /\ IsLengthInRange(options.longTokenLength)
              <=> error # LongTokenLengthInvalid
         /\ ~IsLengthInRange(options.longTokenLength) => pc = "threw"

\* C6: a call that throws a validation error has started no entropy draw,
\* starts none afterwards, and returns no APIKey.
C6_ValidationBeforeEntropy ==
  error \in ValidationErrors =>
    /\ pc = "threw"
    /\ \A d \in Draws : draw[d] = "none"
    /\ first = "none"
    /\ result = NoKey

C6_Witness ==
  /\ pc = "threw"
  /\ error = LongTokenLengthInvalid
  /\ options.longTokenLength = Num(2 * MaxTokenLength + 2)
  /\ \A d \in Draws : draw[d] = "none"

\* C7 as claimed: with shortTokenLength omitted or an integer in [4,24],
\* the returned shortToken begins with the complete shortTokenPrefix.
C7_CompletePrefix ==
  (/\ Returned
   /\ Truthy(options.shortTokenPrefix)
   /\ (options.shortTokenLength = Undef \/ IsLengthInRange(options.shortTokenLength)))
    => StartsWith(result.shortToken.s, options.shortTokenPrefix.s)

\* C7 as amended: the returned shortToken begins with the complete
\* shortTokenPrefix when shortTokenLength is omitted or is at least the
\* length of the prefix; when shortTokenLength is smaller, the shortToken
\* is the prefix cut to shortTokenLength (rounded down) characters.
C7_PrefixWithinLength ==
  (Returned /\ Truthy(options.shortTokenPrefix)) =>
    LET prefix == options.shortTokenPrefix.s
        length == options.shortTokenLength
    IN IF length = Undef \/ ~LessThan(length, Len(prefix))
         THEN StartsWith(result.shortToken.s, prefix)
         ELSE result.shortToken.s = SubSeq(prefix, 1, toInteger(length))

C7_Witness ==
  /\ Returned
  /\ Len(options.shortTokenPrefix.s) = MaxPrefixLen
  /\ options.shortTokenLength = Num(2 * MinTokenLength)
  /\ result.shortToken.s = SubSeq(options.shortTokenPrefix.s, 1, MinTokenLength)

\* C8: for a token of at least three segments, extractLongToken gives the
\* last segment and extractShortToken the one before it, however many
\* segments precede them.
C8_RightAnchored ==
  Len(segs) >= 3 =>
    /\ out.op = "extractLongToken" => out.val = Str(segs[Len(segs)])
    /\ out.op = "extractShortToken" => out.val = Str(segs[Len(segs) - 1])
    /\ out.op = "getTokenComponents" =>
         /\ out.val.longToken = Str(segs[Len(segs)])
         /\ out.val.shortToken = Str(segs[Len(segs) - 1])

C8_Witness ==
  /\ segs = KnownSegments
  /\ out.op = "extractShortToken"
  /\ out.val = Str(<<"B","R","T","R","K","F","s","L">>)

\* C9: a key is returned only when both draws have completed, and then at
\* once; it is the key of the short draw's and the long draw's bytes,
\* whichever completed first; and once a draw has failed there is no key.
C9_JoinBeforeAssembly ==
  /\ result # NoKey <=> Returned
  /\ Returned <=> \A d \in Draws : draw[d] = "done"
  /\ Returned => result = APIKeyOf(options, entropy["short"], entropy["long"])
  /\ (\E d \in Draws : draw[d] = "failed") => pc = "threw" /\ result = NoKey

C9_Witness ==
  /\ Returned
  /\ first = "long"
  /\ entropy["short"] # entropy["long"]
  /\ result = APIKeyOf(options, entropy["short"], entropy["long"])

\* the tokens that end with the segment last: the bare segment, and the
\* segment after one or two others
Variants(last) ==
  {Str(Join(Append(q, last))) : q \in SegSeqs(0) \cup SegSeqs(1) \cup SegSeqs(2)}

\* C10: checkAPIKey gives the same result for every token with the same
\* last segment: the bare long token, or any prefix and short token.
C10_OnlyLastSegmentChecked ==
  out.op = "checkAPIKey" =>
    \A t \in Variants(segs[Len(segs)]) :
      checkAPIKey(t, out.expected) = out.val

C10_Witness ==
  /\ out.op = "checkAPIKey"
  /\ Len(segs) = 1
  /\ out.val = TRUE
  /\ \E t \in Variants(segs[1]) : t # tok /\ checkAPIKey(t, out.expected)

====
